---- MODULE Spec2Model ----
(***************************************************************************)
(* Model of WiFiManager (bi_wifi.cpp): the connection state machine, the   *)
(* credential store kept in NVS, the provisioning session and the event    *)
(* handlers, together with the radio, the provisioning manager and the     *)
(* event loop they talk to.                                                *)
(*                                                                         *)
(* Every facade call and every event handler is one atomic action (the     *)
(* event loop delivers one event at a time).  Strings are modelled as a    *)
(* tag and a byte length, so that the strncpy truncation of connect() is   *)
(* a real conversion.  NVS writes and erases take effect when they are     *)
(* issued (a failing later step does not undo an earlier one), and         *)
(* loadCredentials fails exactly when a key is absent.  The ESP_ERROR_CHECK*)
(* aborts are not modelled: the calls they guard are accepted.             *)
(*                                                                         *)
(* op and effects are history variables: the call or handler that ran last *)
(* (its name, the state it started from, its result) and what it did, in   *)
(* order.  CallReturns forgets them, and the next call or event is taken   *)
(* only after that.  A call that never returns (connect() and              *)
(* startProvisioning() calling each other without end) sets diverged,      *)
(* after which nothing else happens.  In Spec a storage call fails at the  *)
(* open or at the commit; StoreSpec runs the store on its own with a       *)
(* failure at every one of its steps.  RaceSpec runs a facade call         *)
(* statement by statement with the handlers of the event loop in between.  *)
(***************************************************************************)
EXTENDS Integers, Sequences, FiniteSets, TLC

\* ------------------------------------------------------------------ bounds
MaxQueue == 1

\* ------------------------------------------------------------- strings
Str(t, n) == [tag |-> t, len |-> n]

EmptyStr == Str("", 0)

\* marker of a key that is absent from the NVS namespace
NotFound == Str("ESP_ERR_NVS_NOT_FOUND", 0)

SsidFieldSize == 32

PasswordFieldSize == 64

\* strncpy(dst, s.c_str(), n) into a zeroed buffer: at most n bytes are kept
Strncpy(s, n) == IF s.len > n THEN Str(s.tag, n) ELSE s

\* (identifier, secret) pairs the application and the provisioning peer use:
\* a short identifier, and one that fills the 32 bytes an SSID may have
Cred(ssid, password) == [ssid |-> ssid, password |-> password]

Credentials == {Cred(Str("a", 1), Str("p", 8)),
                Cred(Str("b", SsidFieldSize), Str("q", 8))}

\* pairs whose identifier is NUL-terminated inside the ssid field of the
\* wifi_sta_config_t that WIFI_PROV_CRED_RECV carries
ProvCredentials == {c \in Credentials : c.ssid.len < SsidFieldSize}

IpAddrs == {"192.168.4.2"}

NoIp == "0.0.0.0"

\* ------------------------------------------------------------- states
DISCONNECTED == "DISCONNECTED"

CONNECTING == "CONNECTING"

CONNECTED == "CONNECTED"

PROVISIONING == "PROVISIONING"

ERROR == "ERROR"

WiFiState == {DISCONNECTED, CONNECTING, CONNECTED, PROVISIONING, ERROR}

WIFI_CONNECTED_BIT == "WIFI_CONNECTED_BIT"

WIFI_FAIL_BIT == "WIFI_FAIL_BIT"

PROVISIONING_DONE == "PROVISIONING_DONE"

\* ------------------------------------------------------ credential store
\* the step of a save or of a clear at which the backend fails
NvsFailPoints == {"none", "open", "ssid", "pass", "commit"}

EmptyNvs == [wifi_ssid |-> NotFound, wifi_pass |-> NotFound]

NvsSaveSwapped(nvs, ssid, password, fail) ==
    IF fail \in {"open", "ssid"} THEN [nvs |-> nvs, ok |-> FALSE]
    ELSE IF fail = "pass"
         THEN [nvs |-> [nvs EXCEPT !.wifi_pass = ssid], ok |-> FALSE]
    ELSE [nvs |-> [wifi_ssid |-> password, wifi_pass |-> ssid],
          ok |-> (fail = "none")]

NvsSave(nvs, ssid, password, fail) ==
    IF fail \in {"open", "ssid"} THEN [nvs |-> nvs, ok |-> FALSE]
    ELSE IF fail = "pass"
         THEN [nvs |-> [nvs EXCEPT !.wifi_ssid = ssid], ok |-> FALSE]
    ELSE [nvs |-> [wifi_ssid |-> ssid, wifi_pass |-> password],
          ok |-> (fail = "none")]

NvsClear(nvs, fail) ==
    IF fail \in {"open", "ssid"} THEN [nvs |-> nvs, ok |-> FALSE]
    ELSE IF fail = "pass"
         THEN [nvs |-> [nvs EXCEPT !.wifi_ssid = NotFound], ok |-> FALSE]
    ELSE [nvs |-> EmptyNvs, ok |-> (fail = "none")]

NvsLoad(nvs) ==
    IF nvs.wifi_ssid = NotFound
    THEN [ok |-> FALSE, ssid |-> EmptyStr, password |-> EmptyStr]
    ELSE IF nvs.wifi_pass = NotFound
    THEN [ok |-> FALSE, ssid |-> EmptyStr, password |-> EmptyStr]
    ELSE [ok |-> TRUE, ssid |-> nvs.wifi_ssid, password |-> nvs.wifi_pass]

\* ------------------------------------------------------------- variables
VARIABLES
    state_,                 \* WiFiState state_
    initialized_,           \* bool initialized_
    provisioning_active_,   \* bool provisioning_active_
    current_ssid_,          \* std::string current_ssid_
    current_password_,      \* std::string current_password_
    connection_callback_,   \* TRUE when an observer is registered
    nvs,                    \* the two keys of the NVS namespace
    wifi_config,            \* station configuration held by the radio driver
    radio,                  \* link of the station: idle, connecting, up
    down_owed,              \* the driver still has to post a disconnected event
    down_cause,             \* the call whose radio-disconnect that event answers
    netif_ip,               \* address of netif_sta_
    prov_mgr,               \* provisioning manager: deinit, init, started, ended
    end_owed,               \* the manager still has to post the end of a stopped session
    session_cred,           \* credentials the session in progress has received
    fresh_persist,          \* the last call was a connect(ssid, password, true)
    events,                 \* event loop queue, head is delivered next
    saved_pairs,            \* pairs that were passed to a saveCredentials call
    diverged,               \* TRUE once a call recursed without end
    race,                   \* the facade call in progress that runs step by step
    op,                     \* the last facade call or handler that ran
    effects                 \* what that call or handler did, in order

vars == <<state_, initialized_, provisioning_active_, current_ssid_,
          current_password_, connection_callback_, nvs, wifi_config, radio,
          down_owed, down_cause, netif_ip, prov_mgr, end_owed, session_cred,
          fresh_persist, events, saved_pairs, diverged, race, op, effects>>

NoConfig == Cred(EmptyStr, EmptyStr)

\* no facade call is running step by step
NoRace ==
    [call |-> "", step |-> 0, cred |-> NoConfig, save |-> FALSE,
     start |-> <<>>, evs |-> <<>>, n |-> 0]

\* the whole machine as one record, so that handlers can call each other
Machine ==
    [state_ |-> state_, initialized_ |-> initialized_,
     provisioning_active_ |-> provisioning_active_,
     current_ssid_ |-> current_ssid_, current_password_ |-> current_password_,
     connection_callback_ |-> connection_callback_,
     nvs |-> nvs, wifi_config |-> wifi_config, radio |-> radio,
     down_owed |-> down_owed, down_cause |-> down_cause,
     netif_ip |-> netif_ip, prov_mgr |-> prov_mgr,
     end_owed |-> end_owed, session_cred |-> session_cred,
     fresh_persist |-> FALSE, events |-> events, diverged |-> diverged,
     race |-> race,
     ret |-> TRUE, effects |-> <<>>]

Eff(e, arg) == [e |-> e, arg |-> arg]

Did(m, e, arg) == [m EXCEPT !.effects = Append(@, Eff(e, arg))]

Return(m, r) == [m EXCEPT !.ret = r]

\* ------------------------------------------------------------- events
Event(kind, ssid, password, ip, stale) ==
    [kind |-> kind, ssid |-> ssid, password |-> password, ip |-> ip,
     stale |-> stale, cause |-> ""]

LinkDownEvent == Event("WIFI_EVENT_STA_DISCONNECTED", EmptyStr, EmptyStr, NoIp, FALSE)

GotIpEvent(ip) == Event("IP_EVENT_STA_GOT_IP", EmptyStr, EmptyStr, ip, FALSE)

CredRecvEvent(ssid, password) == Event("WIFI_PROV_CRED_RECV", ssid, password, NoIp, FALSE)

ProvEndEvent == Event("WIFI_PROV_END", EmptyStr, EmptyStr, NoIp, FALSE)

\* the disconnected event that answers the radio-disconnect of a call
LinkDownFor(cause) == [LinkDownEvent EXCEPT !.cause = cause]

\* an attempt was superseded: its queued IP events no longer belong to the
\* attempt in progress
Supersede(q) ==
    [i \in 1..Len(q) |->
        IF q[i].kind = "IP_EVENT_STA_GOT_IP" THEN [q[i] EXCEPT !.stale = TRUE]
        ELSE q[i]]

\* a session was stopped: the provisioning events still queued, and the end
\* the manager posts for it, belong to the stopped session
Abandon(q) ==
    [i \in 1..Len(q) |->
        IF q[i].kind \in {"WIFI_PROV_CRED_RECV", "WIFI_PROV_END"}
        THEN [q[i] EXCEPT !.cause = "stopProvisioning"]
        ELSE q[i]]

\* ------------------------------------------------------------- updateState
UpdateStateAlwaysNotifies(m, new_state) ==
    LET m1 == [m EXCEPT !.state_ = new_state]
    IN  IF m1.connection_callback_ THEN Did(m1, "notify", m1.state_) ELSE m1

UpdateState(m, new_state) ==
    IF m.state_ # new_state
    THEN LET m1 == [m EXCEPT !.state_ = new_state]
         IN  IF m1.connection_callback_ THEN Did(m1, "notify", m1.state_) ELSE m1
    ELSE m

\* ------------------------------------------------------------- init
InitOutcomes == {"ok", "nvs_failed", "wifi_failed"}

InitOpReinitializes(m, outcome) ==
    IF outcome = "nvs_failed" THEN Return(Did(m, "initNVS", "failed"), FALSE)
    ELSE IF outcome = "wifi_failed"
    THEN Return(Did(Did(m, "initNVS", "ok"), "initWiFi", "failed"), FALSE)
    ELSE LET m1 == Did(Did(m, "initNVS", "ok"), "initWiFi", "ok")
             m2 == [m1 EXCEPT !.initialized_ = TRUE]
         IN  Return(UpdateState(m2, DISCONNECTED), TRUE)

InitOp(m, outcome) ==
    IF m.initialized_ THEN Return(m, TRUE)
    ELSE IF outcome = "nvs_failed" THEN Return(Did(m, "initNVS", "failed"), FALSE)
    ELSE IF outcome = "wifi_failed"
    THEN Return(Did(Did(m, "initNVS", "ok"), "initWiFi", "failed"), FALSE)
    ELSE LET m1 == Did(Did(m, "initNVS", "ok"), "initWiFi", "ok")
             m2 == [m1 EXCEPT !.initialized_ = TRUE]
         IN  Return(UpdateState(m2, DISCONNECTED), TRUE)

\* ------------------------------------------------- credential store calls
SaveCredentials(m, ssid, password, fail) ==
    LET r == NvsSave(m.nvs, ssid, password, fail)
        m1 == [m EXCEPT !.nvs = r.nvs]
    IN  Return(Did(m1, "saveCredentials", IF r.ok THEN "ok" ELSE "failed"), r.ok)

LoadCredentials(m) == NvsLoad(m.nvs)

ClearStoredCredentials(m, fail) ==
    LET r == NvsClear(m.nvs, fail)
        m1 == [m EXCEPT !.nvs = r.nvs]
    IN  Return(Did(m1, "clearStoredCredentials", IF r.ok THEN "ok" ELSE "failed"), r.ok)

HasStoredCredentials(m) == LoadCredentials(m).ok

\* ------------------------------------------------------------- getters
GetState(m) == m.state_

GetSSID(m) == IF m.state_ # CONNECTED THEN EmptyStr ELSE m.current_ssid_

GetIPAddress(m) == IF m.state_ # CONNECTED THEN "" ELSE m.netif_ip

\* ------------------------------------------------------------- radio calls
\* esp_wifi_disconnect accepted by the driver: the link goes down and the
\* driver will post WIFI_EVENT_STA_DISCONNECTED when there was a link or an
\* attempt
EspWifiDisconnect(m) ==
    LET m1 == Did(m, "esp_wifi_disconnect", "ok")
    IN  IF m1.radio = "idle" THEN [m1 EXCEPT !.events = Supersede(@)]
        ELSE [m1 EXCEPT !.radio = "idle", !.down_owed = TRUE,
                        !.down_cause = IF m.down_owed THEN @ ELSE "disconnect",
                        !.events = Supersede(@)]

\* esp_wifi_connect: the station starts an attempt towards wifi_config
EspWifiConnect(m) ==
    LET m1 == Did(m, "esp_wifi_connect", "")
    IN  [m1 EXCEPT !.radio = IF @ = "up" THEN "up" ELSE "connecting"]

\* ------------------------------------------------------------- disconnect
DisconnectIgnoresResult(m, radio_ok) ==
    IF ~m.initialized_ THEN Return(m, FALSE)
    ELSE IF ~radio_ok
    THEN Return(UpdateState(Did(m, "esp_wifi_disconnect", "rejected"),
                            DISCONNECTED), FALSE)
    ELSE Return(UpdateState(EspWifiDisconnect(m), DISCONNECTED), TRUE)

Disconnect(m, radio_ok) ==
    IF ~m.initialized_ THEN Return(m, FALSE)
    ELSE IF ~radio_ok
    THEN Return(Did(m, "esp_wifi_disconnect", "rejected"), FALSE)
    ELSE Return(UpdateState(EspWifiDisconnect(m), DISCONNECTED), TRUE)

\* ------------------------------------------ connect(ssid, password, save)
ConnectWith(m, ssid, password, save, init_outcome, radio_ok, save_fail) ==
    LET m0 == IF m.initialized_ THEN m ELSE InitOp(m, init_outcome)
    IN  IF ~m0.initialized_ THEN Return(m0, FALSE)
        ELSE
        LET d  == Disconnect(m0, radio_ok)
            m1 == IF m0.state_ \in {CONNECTING, CONNECTED}
                  THEN IF d.down_owed /\ ~m0.down_owed
                       THEN [d EXCEPT !.down_cause = "connect"] ELSE d
                  ELSE m0
            m2 == IF save THEN SaveCredentials(m1, ssid, password, save_fail)
                  ELSE m1
            m3 == Did(Did(m2, "xEventGroupClearBits", WIFI_CONNECTED_BIT),
                      "xEventGroupClearBits", WIFI_FAIL_BIT)
            m4 == [Did(m3, "esp_wifi_set_config", "") EXCEPT
                      !.wifi_config = Cred(Strncpy(ssid, SsidFieldSize - 1),
                                           Strncpy(password, PasswordFieldSize - 1)),
                      !.events = Supersede(@)]
            m5 == EspWifiConnect(m4)
            m6 == UpdateState(m5, CONNECTING)
        IN  Return([m6 EXCEPT !.current_ssid_ = ssid,
                              !.current_password_ = password], TRUE)

\* ------------------------------------------------ provisioning and connect()
\* wifi_prov_mgr_is_provisioned: the station configuration names a network
IsProvisioned(m) == m.wifi_config.ssid # EmptyStr

\* connect() and startProvisioning() call each other: with no credentials to
\* load connect() calls startProvisioning(), which clears the store and calls
\* connect() again when the manager reports the device provisioned.  Clearing
\* never adds a key, so once a load failed in that cycle every later one
\* fails too and the calls nest until the stack is exhausted.
RecurseWithoutEnd(m, clear_fail) ==
    LET m1 == ClearStoredCredentials(Did(m, "startProvisioning", "nested"), clear_fail)
    IN  Return([m1 EXCEPT !.diverged = TRUE], FALSE)

\* the part of connect() after init: load, then connect or provision
ConnectStored(m, radio_ok, clear_fail) ==
    LET c == LoadCredentials(m)
        m1 == Did(m, "loadCredentials", IF c.ok THEN "ok" ELSE "failed")
    IN  IF c.ok
        THEN ConnectWith(m1, c.ssid, c.password, FALSE, "ok", radio_ok, "none")
        ELSE RecurseWithoutEnd(m1, clear_fail)

StartProvisioning(m, init_outcome, radio_ok, clear_fail, clear_fail2) ==
    LET m0 == IF m.initialized_ THEN m ELSE InitOp(m, init_outcome)
    IN  IF ~m0.initialized_ THEN Return(m0, FALSE)
        ELSE IF m0.provisioning_active_ THEN Return(m0, TRUE)
        ELSE
        LET m1 == ClearStoredCredentials(m0, clear_fail)
            m2 == Did(m1, "xEventGroupClearBits", PROVISIONING_DONE)
            m3 == [Did(m2, "wifi_prov_mgr_init", "") EXCEPT !.prov_mgr = "init"]
        IN  IF ~IsProvisioned(m3)
            THEN LET m5 == [Did(m3, "wifi_prov_mgr_start_provisioning", "")
                               EXCEPT !.prov_mgr = "started",
                                      !.session_cred = NoConfig]
                     m6 == UpdateState(m5, PROVISIONING)
                 IN  Return([m6 EXCEPT !.provisioning_active_ = TRUE], TRUE)
            ELSE LET m5 == [Did(m3, "wifi_prov_mgr_deinit", "")
                               EXCEPT !.prov_mgr = "deinit"]
                 IN  ConnectStored(m5, radio_ok, clear_fail2)

\* connect()
Connect(m, init_outcome, radio_ok, clear_fail, clear_fail2) ==
    LET m0 == IF m.initialized_ THEN m ELSE InitOp(m, init_outcome)
    IN  IF ~m0.initialized_ THEN Return(m0, FALSE)
        ELSE LET c == LoadCredentials(m0)
                 m1 == Did(m0, "loadCredentials", IF c.ok THEN "ok" ELSE "failed")
             IN  IF c.ok
                 THEN ConnectWith(m1, c.ssid, c.password, FALSE, "ok", radio_ok, "none")
                 ELSE StartProvisioning(m1, "ok", radio_ok, clear_fail, clear_fail2)

\* stopProvisioning(): stopping a running session makes the manager post
\* WIFI_PROV_END for it
StopProvisioning(m) ==
    IF ~m.provisioning_active_ THEN Return(m, TRUE)
    ELSE LET m1 == Did(m, "wifi_prov_mgr_stop_provisioning", "")
             m2 == IF m1.prov_mgr = "started"
                   THEN [m1 EXCEPT !.end_owed = TRUE] ELSE m1
             m3 == [Did(m2, "wifi_prov_mgr_deinit", "") EXCEPT !.prov_mgr = "deinit"]
             m4 == [m3 EXCEPT !.provisioning_active_ = FALSE,
                              !.session_cred = NoConfig,
                              !.events = Abandon(@)]
         IN  Return(UpdateState(m4, DISCONNECTED), TRUE)

\* ------------------------------------------------------------- eventHandler
OnStaDisconnectedGivesUp(m) ==
    LET m0 == [m EXCEPT !.netif_ip = NoIp]
    IN  Did(UpdateState(m0, DISCONNECTED), "xEventGroupSetBits", WIFI_FAIL_BIT)

OnStaDisconnected(m) ==
    LET m0 == [m EXCEPT !.netif_ip = NoIp]
    IN  IF m0.state_ = CONNECTED \/ m0.state_ = CONNECTING
        THEN UpdateState(EspWifiConnect(m0), CONNECTING)
        ELSE Did(UpdateState(m0, DISCONNECTED), "xEventGroupSetBits", WIFI_FAIL_BIT)

OnGotIp(m) ==
    Did(UpdateState(m, CONNECTED), "xEventGroupSetBits", WIFI_CONNECTED_BIT)

\* ------------------------------------------------- provisioningEventHandler
OnCredRecv(m, ev, save_fail) ==
    SaveCredentials([m EXCEPT !.session_cred = Cred(ev.ssid, ev.password)],
                    ev.ssid, ev.password, save_fail)

\* WIFI_PROV_END: the manager is torn down and the flag dropped
ProvEndTeardownKeepsFlag(m) ==
    LET m1 == [Did(m, "wifi_prov_mgr_deinit", "") EXCEPT !.prov_mgr = "deinit"]
    IN  Did([m1 EXCEPT !.session_cred = NoConfig],
            "xEventGroupSetBits", PROVISIONING_DONE)

ProvEndTeardown(m) ==
    LET m1 == [Did(m, "wifi_prov_mgr_deinit", "") EXCEPT !.prov_mgr = "deinit"]
        m2 == Did([m1 EXCEPT !.provisioning_active_ = FALSE,
                             !.session_cred = NoConfig],
                  "provisioning_active_", "false")
    IN  Did(m2, "xEventGroupSetBits", PROVISIONING_DONE)

OnProvEndInverted(m, radio_ok) ==
    LET m2 == ProvEndTeardown(m)
        c == LoadCredentials(m2)
        m3 == Did(m2, "loadCredentials", IF c.ok THEN "ok" ELSE "failed")
    IN  IF ~c.ok
        THEN ConnectWith(m3, c.ssid, c.password, FALSE, "ok", radio_ok, "none")
        ELSE UpdateState(m3, ERROR)

OnProvEnd(m, radio_ok) ==
    LET m2 == ProvEndTeardown(m)
        c == LoadCredentials(m2)
        m3 == Did(m2, "loadCredentials", IF c.ok THEN "ok" ELSE "failed")
    IN  IF c.ok
        THEN ConnectWith(m3, c.ssid, c.password, FALSE, "ok", radio_ok, "none")
        ELSE UpdateState(m3, ERROR)

\* ------------------------------------------------------------- actions
NoEvent == Event("", EmptyStr, EmptyStr, NoIp, FALSE)

\* the record of a call: its name, the state it started in, the step at
\* which the store failed in it, the event handed to it, what it returned
OpRec(name, fail, ev, m) ==
    [name |-> name, fail |-> fail, ev |-> ev, from |-> state_, ret |-> m.ret]

ApplyWith(m, o, pairs) ==
    /\ state_' = m.state_
    /\ initialized_' = m.initialized_
    /\ provisioning_active_' = m.provisioning_active_
    /\ current_ssid_' = m.current_ssid_
    /\ current_password_' = m.current_password_
    /\ connection_callback_' = m.connection_callback_
    /\ nvs' = m.nvs
    /\ wifi_config' = m.wifi_config
    /\ radio' = m.radio
    /\ down_owed' = m.down_owed
    /\ down_cause' = m.down_cause
    /\ netif_ip' = m.netif_ip
    /\ prov_mgr' = m.prov_mgr
    /\ end_owed' = m.end_owed
    /\ session_cred' = m.session_cred
    /\ fresh_persist' = m.fresh_persist
    /\ events' = m.events
    /\ saved_pairs' = pairs
    /\ diverged' = m.diverged
    /\ race' = m.race
    /\ op' = o
    /\ effects' = m.effects

\* saved_pairs is the history StoreSpec keeps; the machine leaves it alone
Apply(m, o) == ApplyWith(m, o, saved_pairs)

\* no call is on record
NoOp ==
    [name |-> "", fail |-> "none", ev |-> NoEvent, from |-> DISCONNECTED,
     ret |-> TRUE]

\* op and effects describe the call that has just returned; the record is
\* dropped before the next step is taken
Quiet == op = NoOp /\ ~diverged

CallReturns ==
    /\ op # NoOp
    /\ ~diverged
    /\ op' = NoOp
    /\ effects' = <<>>
    /\ UNCHANGED <<state_, initialized_, provisioning_active_, current_ssid_,
                   current_password_, connection_callback_, nvs, wifi_config,
                   radio, down_owed, down_cause, netif_ip, prov_mgr, end_owed,
                   session_cred, fresh_persist, events, saved_pairs, diverged,
                   race>>

InitInputs == IF initialized_ THEN {"ok"} ELSE InitOutcomes

\* the radio answers a disconnect only when the call reaches it
RadioInputs(reached) == IF reached THEN BOOLEAN ELSE {TRUE}

\* In the specification of the whole machine the store fails before it
\* wrote anything (at nvs_open) or after it wrote everything (at nvs_commit);
\* StoreSpec lets every step of a save and of a clear fail.
MachineFailPoints == {"none", "open", "commit"}

\* the store fails at a step only when the call reaches the store
NvsInputs(reached) == IF reached THEN MachineFailPoints ELSE {"none"}

QueueHasRoom == Len(events) < MaxQueue

DoInit ==
    /\ Quiet
    /\ \E io \in InitInputs :
         LET m == InitOp(Machine, io)
         IN  Apply(m, OpRec("init", "none", NoEvent, m))

DoSetConnectionCallback ==
    /\ Quiet
    /\ \E cb \in BOOLEAN :
         LET m == [Machine EXCEPT !.connection_callback_ = cb]
         IN  Apply(m, OpRec("setConnectionCallback", "none", NoEvent, m))

DoConnectWith ==
    /\ Quiet
    /\ \E c \in Credentials, save \in BOOLEAN, io \in InitInputs,
          radio_ok \in RadioInputs(initialized_ /\ state_ \in {CONNECTING, CONNECTED}) :
         \E sf \in NvsInputs(save /\ (initialized_ \/ io = "ok")) :
           LET r == ConnectWith(Machine, c.ssid, c.password, save, io, radio_ok, sf)
               m == [r EXCEPT !.fresh_persist = save /\ r.ret]
           IN  Apply(m, OpRec("connect(ssid,password,save)", sf, NoEvent, m))

DoConnect ==
    /\ Quiet
    /\ \E io \in InitInputs,
          radio_ok \in RadioInputs(initialized_ /\ state_ \in {CONNECTING, CONNECTED}
                                   /\ HasStoredCredentials(Machine)) :
         \E cf \in NvsInputs((initialized_ \/ io = "ok")
                             /\ ~HasStoredCredentials(Machine)
                             /\ ~provisioning_active_) :
         \E cf2 \in NvsInputs((initialized_ \/ io = "ok")
                              /\ ~HasStoredCredentials(Machine)
                              /\ ~provisioning_active_ /\ IsProvisioned(Machine)) :
           LET m == Connect(Machine, io, radio_ok, cf, cf2)
           IN  Apply(m, OpRec("connect()", cf, NoEvent, m))

DoDisconnect ==
    /\ Quiet
    /\ \E radio_ok \in RadioInputs(initialized_) :
         LET m == Disconnect(Machine, radio_ok)
         IN  Apply(m, OpRec("disconnect", "none", NoEvent, m))

DoStartProvisioning ==
    /\ Quiet
    /\ \E io \in InitInputs :
       \E cf \in NvsInputs((initialized_ \/ io = "ok") /\ ~provisioning_active_) :
       \E radio_ok \in RadioInputs(initialized_ /\ ~provisioning_active_
                                   /\ IsProvisioned(Machine)
                                   /\ state_ \in {CONNECTING, CONNECTED}
                                   /\ NvsLoad(NvsClear(nvs, cf).nvs).ok) :
       \E cf2 \in NvsInputs((initialized_ \/ io = "ok") /\ ~provisioning_active_
                            /\ IsProvisioned(Machine)
                            /\ ~NvsLoad(NvsClear(nvs, cf).nvs).ok) :
           LET m == StartProvisioning(Machine, io, radio_ok, cf, cf2)
           IN  Apply(m, OpRec("startProvisioning", cf, NoEvent, m))

DoStopProvisioning ==
    /\ Quiet
    /\ LET m == StopProvisioning(Machine)
       IN  Apply(m, OpRec("stopProvisioning", "none", NoEvent, m))

DoClearStoredCredentials ==
    /\ Quiet
    /\ \E cf \in MachineFailPoints :
         LET m == ClearStoredCredentials(Machine, cf)
         IN  Apply(m, OpRec("clearStoredCredentials", cf, NoEvent, m))

\* the event loop hands the head of its queue to the registered handler
Popped == [Machine EXCEPT !.events = Tail(@)]

DeliverStaDisconnected ==
    /\ Quiet
    /\ events # <<>>
    /\ Head(events).kind = "WIFI_EVENT_STA_DISCONNECTED"
    /\ LET m == OnStaDisconnected(Popped)
       IN  Apply(m, OpRec("eventHandler", "none", Head(events), m))

DeliverGotIp ==
    /\ Quiet
    /\ events # <<>>
    /\ Head(events).kind = "IP_EVENT_STA_GOT_IP"
    /\ LET m == OnGotIp(Popped)
       IN  Apply(m, OpRec("eventHandler", "none", Head(events), m))

DeliverCredRecv ==
    /\ Quiet
    /\ events # <<>>
    /\ Head(events).kind = "WIFI_PROV_CRED_RECV"
    /\ \E sf \in MachineFailPoints :
         LET m == OnCredRecv(Popped, Head(events), sf)
         IN  Apply(m, OpRec("provisioningEventHandler", sf, Head(events), m))

DeliverProvEnd ==
    /\ Quiet
    /\ events # <<>>
    /\ Head(events).kind = "WIFI_PROV_END"
    /\ \E radio_ok \in RadioInputs(state_ \in {CONNECTING, CONNECTED}
                                   /\ HasStoredCredentials(Machine)) :
         LET m == OnProvEnd(Popped, radio_ok)
         IN  Apply(m, OpRec("provisioningEventHandler", "none", Head(events), m))

\* ------------------------------------------------------------- environment
\* a step of the radio or of the provisioning manager is no call
EnvStep == op' = NoOp /\ effects' = <<>>

\* the attempt succeeds: the station gets an address and IP_EVENT_STA_GOT_IP
\* is posted
RadioLinkUp ==
    /\ Quiet
    /\ radio = "connecting"
    /\ ~down_owed
    /\ QueueHasRoom
    /\ \E ip \in IpAddrs :
         /\ netif_ip' = ip
         /\ events' = Append(events, GotIpEvent(ip))
    /\ radio' = "up"
    /\ EnvStep
    /\ UNCHANGED <<state_, initialized_, provisioning_active_, current_ssid_,
                   current_password_, connection_callback_, nvs, wifi_config,
                   down_owed, down_cause, prov_mgr, end_owed, session_cred,
                   fresh_persist, saved_pairs, diverged,
                   race>>

\* the attempt fails or the link is lost: WIFI_EVENT_STA_DISCONNECTED is posted
RadioLinkLost ==
    /\ Quiet
    /\ radio \in {"connecting", "up"}
    /\ ~down_owed
    /\ QueueHasRoom
    /\ radio' = "idle"
    /\ events' = Append(events, LinkDownEvent)
    /\ EnvStep
    /\ UNCHANGED <<state_, initialized_, provisioning_active_, current_ssid_,
                   current_password_, connection_callback_, nvs, wifi_config,
                   down_owed, down_cause, netif_ip, prov_mgr, end_owed,
                   session_cred, fresh_persist, saved_pairs, diverged,
                   race>>

\* the driver posts the WIFI_EVENT_STA_DISCONNECTED of an esp_wifi_disconnect
RadioPostDisconnected ==
    /\ Quiet
    /\ down_owed
    /\ QueueHasRoom
    /\ down_owed' = FALSE
    /\ down_cause' = ""
    /\ events' = Append(events, LinkDownFor(down_cause))
    /\ EnvStep
    /\ UNCHANGED <<state_, initialized_, provisioning_active_, current_ssid_,
                   current_password_, connection_callback_, nvs, wifi_config,
                   radio, netif_ip, prov_mgr, end_owed, session_cred,
                   fresh_persist, saved_pairs, diverged,
                   race>>

\* a peer hands credentials to the running session
ProvCredRecv ==
    /\ Quiet
    /\ prov_mgr = "started"
    /\ QueueHasRoom
    /\ \E c \in ProvCredentials :
         events' = Append(events, CredRecvEvent(c.ssid, c.password))
    /\ EnvStep
    /\ UNCHANGED <<state_, initialized_, provisioning_active_, current_ssid_,
                   current_password_, connection_callback_, nvs, wifi_config,
                   radio, down_owed, down_cause, netif_ip, prov_mgr, end_owed,
                   session_cred, fresh_persist, saved_pairs, diverged,
                   race>>

\* the manager ends the running session
ProvEnd ==
    /\ Quiet
    /\ prov_mgr = "started"
    /\ QueueHasRoom
    /\ prov_mgr' = "ended"
    /\ events' = Append(events, ProvEndEvent)
    /\ EnvStep
    /\ UNCHANGED <<state_, initialized_, provisioning_active_, current_ssid_,
                   current_password_, connection_callback_, nvs, wifi_config,
                   radio, down_owed, down_cause, netif_ip, end_owed,
                   session_cred, fresh_persist, saved_pairs, diverged,
                   race>>

\* the manager posts the WIFI_PROV_END of a session that stopProvisioning stopped
ProvPostStopped ==
    /\ Quiet
    /\ end_owed
    /\ QueueHasRoom
    /\ end_owed' = FALSE
    /\ events' = Append(events, Abandon(<<ProvEndEvent>>)[1])
    /\ EnvStep
    /\ UNCHANGED <<state_, initialized_, provisioning_active_, current_ssid_,
                   current_password_, connection_callback_, nvs, wifi_config,
                   radio, down_owed, down_cause, netif_ip, prov_mgr,
                   session_cred, fresh_persist, saved_pairs, diverged,
                   race>>

\* ------------------------------------------------------------- specification
\* what an earlier boot may have left: nothing, or a pair in the store, and
\* a station configuration in the driver or none
StoreOf(c) == [wifi_ssid |-> c.ssid, wifi_pass |-> c.password]

ConfigOf(c) == Cred(Strncpy(c.ssid, SsidFieldSize - 1),
                    Strncpy(c.password, PasswordFieldSize - 1))

Init ==
    /\ state_ = DISCONNECTED
    /\ initialized_ = FALSE
    /\ provisioning_active_ = FALSE
    /\ current_ssid_ = EmptyStr
    /\ current_password_ = EmptyStr
    /\ connection_callback_ = FALSE
    /\ nvs \in {EmptyNvs} \cup {StoreOf(c) : c \in ProvCredentials}
    /\ wifi_config \in {NoConfig} \cup {ConfigOf(c) : c \in ProvCredentials}
    /\ radio = "idle"
    /\ down_owed = FALSE
    /\ down_cause = ""
    /\ netif_ip = NoIp
    /\ prov_mgr = "deinit"
    /\ end_owed = FALSE
    /\ session_cred = NoConfig
    /\ fresh_persist = FALSE
    /\ events = <<>>
    /\ saved_pairs = {}
    /\ diverged = FALSE
    /\ race = NoRace
    /\ op = NoOp
    /\ effects = <<>>

Next ==
    \/ CallReturns
    \/ DoInit
    \/ DoSetConnectionCallback
    \/ DoConnect
    \/ DoConnectWith
    \/ DoDisconnect
    \/ DoStartProvisioning
    \/ DoStopProvisioning
    \/ DoClearStoredCredentials
    \/ DeliverStaDisconnected
    \/ DeliverGotIp
    \/ DeliverCredRecv
    \/ DeliverProvEnd
    \/ RadioLinkUp
    \/ RadioLinkLost
    \/ RadioPostDisconnected
    \/ ProvCredRecv
    \/ ProvEnd
    \/ ProvPostStopped

Spec == Init /\ [][Next]_vars

\* ------------------------------------------------- the credential store
\* The store on its own: any sequence of saveCredentials and
\* clearStoredCredentials calls, each of which may fail at any of its steps.
\* op.ev carries the pair that was passed to saveCredentials.
StoreSave ==
    /\ \E c \in Credentials, fail \in NvsFailPoints :
         LET m == SaveCredentials(Machine, c.ssid, c.password, fail)
         IN  ApplyWith(m, OpRec("saveCredentials", fail,
                                Event("", c.ssid, c.password, NoIp, FALSE), m),
                       saved_pairs \cup {c})

StoreClear ==
    /\ \E fail \in NvsFailPoints :
         LET m == ClearStoredCredentials(Machine, fail)
         IN  ApplyWith(m, OpRec("clearStoredCredentials", fail, NoEvent, m),
                       saved_pairs)

StoreInit ==
    /\ state_ = DISCONNECTED
    /\ initialized_ = TRUE
    /\ provisioning_active_ = FALSE
    /\ current_ssid_ = EmptyStr
    /\ current_password_ = EmptyStr
    /\ connection_callback_ = FALSE
    /\ nvs \in {EmptyNvs} \cup {StoreOf(c) : c \in Credentials}
    /\ wifi_config = NoConfig
    /\ radio = "idle"
    /\ down_owed = FALSE
    /\ down_cause = ""
    /\ netif_ip = NoIp
    /\ prov_mgr = "deinit"
    /\ end_owed = FALSE
    /\ session_cred = NoConfig
    /\ fresh_persist = FALSE
    /\ events = <<>>
    /\ saved_pairs = {c \in Credentials : StoreOf(c) = nvs}
    /\ diverged = FALSE
    /\ race = NoRace
    /\ op = NoOp
    /\ effects = <<>>

StoreNext == StoreSave \/ StoreClear

StoreSpec == StoreInit /\ [][StoreNext]_vars

\* ------------------------------------------- call and handler interleaved
\* The application context runs one facade call statement by statement while
\* the event loop, in its own context, runs handlers in between: nothing in
\* the code keeps the two apart.  A handler runs as a whole; the call is cut
\* where it reads or writes what the handlers read or write.  The store and
\* the radio accept every request here.

\* handlers that run while one call is in progress
MaxRaceEvents == 1

\* facade calls the application makes in one run
MaxRaceCalls == 2

RaceCalls == {"connect", "disconnect", "startProvisioning", "stopProvisioning"}

\* connect(ssid, password, save): the implicit disconnect
ConnectStep1(m) ==
    LET d == Disconnect(m, TRUE)
    IN  IF m.state_ \in {CONNECTING, CONNECTED}
        THEN IF d.down_owed /\ ~m.down_owed
             THEN [d EXCEPT !.down_cause = "connect"] ELSE d
        ELSE m

\* connect(ssid, password, save): save, configure, request the connection
ConnectStep2(m, ssid, password, save) ==
    LET m2 == IF save THEN SaveCredentials(m, ssid, password, "none") ELSE m
        m3 == Did(Did(m2, "xEventGroupClearBits", WIFI_CONNECTED_BIT),
                  "xEventGroupClearBits", WIFI_FAIL_BIT)
        m4 == [Did(m3, "esp_wifi_set_config", "") EXCEPT
                  !.wifi_config = Cred(Strncpy(ssid, SsidFieldSize - 1),
                                       Strncpy(password, PasswordFieldSize - 1)),
                  !.events = Supersede(@)]
    IN  EspWifiConnect(m4)

\* startProvisioning, device not provisioned: up to the start of the session
StartProvisioningStep1(m) ==
    LET m1 == ClearStoredCredentials(m, "none")
        m2 == Did(m1, "xEventGroupClearBits", PROVISIONING_DONE)
        m3 == [Did(m2, "wifi_prov_mgr_init", "") EXCEPT !.prov_mgr = "init"]
    IN  [Did(m3, "wifi_prov_mgr_start_provisioning", "")
            EXCEPT !.prov_mgr = "started", !.session_cred = NoConfig]

\* stopProvisioning: stop and tear down the manager, drop the flag
StopProvisioningStep2(m) ==
    LET m1 == Did(m, "wifi_prov_mgr_stop_provisioning", "")
        m2 == IF m1.prov_mgr = "started"
              THEN [m1 EXCEPT !.end_owed = TRUE] ELSE m1
        m3 == [Did(m2, "wifi_prov_mgr_deinit", "") EXCEPT !.prov_mgr = "deinit"]
    IN  [m3 EXCEPT !.provisioning_active_ = FALSE, !.session_cred = NoConfig,
                   !.events = Abandon(@)]

\* one step of the call r: the machine after it and the step that follows
\* (0 when the call has returned)
RaceStep(m, r) ==
    LET To(m1, n) == [m |-> m1, step |-> n]
    IN  CASE r.call = "connect" /\ r.step = 1 -> To(ConnectStep1(m), 2)
          [] r.call = "connect" /\ r.step = 2 ->
                To(ConnectStep2(m, r.cred.ssid, r.cred.password, r.save), 3)
          [] r.call = "connect" /\ r.step = 3 -> To(UpdateState(m, CONNECTING), 4)
          [] r.call = "connect" /\ r.step = 4 ->
                To([m EXCEPT !.current_ssid_ = r.cred.ssid,
                             !.current_password_ = r.cred.password], 0)
          [] r.call = "disconnect" /\ r.step = 1 -> To(EspWifiDisconnect(m), 2)
          [] r.call = "disconnect" /\ r.step = 2 -> To(UpdateState(m, DISCONNECTED), 0)
          [] r.call = "startProvisioning" /\ r.step = 1 ->
                IF m.provisioning_active_ THEN To(m, 0)
                ELSE To(StartProvisioningStep1(m), 2)
          [] r.call = "startProvisioning" /\ r.step = 2 ->
                To(UpdateState(m, PROVISIONING), 3)
          [] r.call = "startProvisioning" /\ r.step = 3 ->
                To([m EXCEPT !.provisioning_active_ = TRUE], 0)
          [] r.call = "stopProvisioning" /\ r.step = 1 ->
                IF ~m.provisioning_active_ THEN To(m, 0) ELSE To(m, 2)
          [] r.call = "stopProvisioning" /\ r.step = 2 ->
                To(StopProvisioningStep2(m), 3)
          [] r.call = "stopProvisioning" /\ r.step = 3 ->
                To(UpdateState(m, DISCONNECTED), 0)

\* the same call run as a whole
RaceCallAtomic(m, r) ==
    CASE r.call = "connect" ->
            ConnectWith(m, r.cred.ssid, r.cred.password, r.save, "ok", TRUE, "none")
      [] r.call = "disconnect" -> Disconnect(m, TRUE)
      [] r.call = "startProvisioning" ->
            StartProvisioning(m, "ok", TRUE, "none", "none")
      [] r.call = "stopProvisioning" -> StopProvisioning(m)

\* the handler the event loop runs for an event
Handle(m, ev) ==
    CASE ev.kind = "WIFI_EVENT_STA_DISCONNECTED" -> OnStaDisconnected(m)
      [] ev.kind = "IP_EVENT_STA_GOT_IP" -> OnGotIp(m)
      [] ev.kind = "WIFI_PROV_CRED_RECV" -> OnCredRecv(m, ev, "none")
      [] ev.kind = "WIFI_PROV_END" -> OnProvEnd(m, TRUE)

\* what the two contexts share
Shared(m) ==
    <<m.state_, m.current_ssid_, m.current_password_, m.provisioning_active_>>

\* the application calls a facade operation, which runs its first step
RaceBegin ==
    /\ Quiet
    /\ race.call = ""
    /\ race.n < MaxRaceCalls
    /\ \E call \in RaceCalls, c \in Credentials, save \in {FALSE} :
         /\ call # "connect" => c = Cred(Str("a", 1), Str("p", 8))
         /\ call = "startProvisioning" =>
               (provisioning_active_ \/ ~IsProvisioned(Machine))
         /\ LET r0 == [call |-> call, step |-> 1, cred |-> c, save |-> save,
                       start |-> Machine, evs |-> <<>>, n |-> race.n + 1]
                r  == RaceStep(Machine, r0)
                m  == [r.m EXCEPT !.race = [r0 EXCEPT !.step = r.step],
                                  !.effects = <<>>]
            IN  Apply(m, IF r.step = 0 THEN OpRec(call, "none", NoEvent, m)
                         ELSE NoOp)

\* the call in progress runs its next step
RaceAdvance ==
    /\ Quiet
    /\ race.call # ""
    /\ race.step > 0
    /\ LET r == RaceStep(Machine, race)
           m == [r.m EXCEPT !.race = [race EXCEPT !.step = r.step],
                            !.effects = <<>>]
       IN  Apply(m, IF r.step = 0 THEN OpRec(race.call, "none", NoEvent, m)
                    ELSE NoOp)

\* the event loop runs the handler of the event at the head of its queue,
\* between two steps of the call in progress or with no call in progress
RaceDeliver ==
    /\ Quiet
    /\ events # <<>>
    /\ race.call # "" => Len(race.evs) < MaxRaceEvents
    /\ LET ev == Head(events)
           h  == Handle(Popped, ev)
           m  == IF race.call = "" THEN h
                 ELSE [h EXCEPT !.race.evs =
                                   Append(@, [ev |-> ev, at |-> race.step])]
       IN  Apply(m, OpRec(IF ev.kind \in {"WIFI_PROV_CRED_RECV", "WIFI_PROV_END"}
                          THEN "provisioningEventHandler" ELSE "eventHandler",
                          "none", ev, m))

\* a handler or the call has returned
RaceReturns ==
    /\ op # NoOp
    /\ ~diverged
    /\ op' = NoOp
    /\ effects' = <<>>
    /\ race' = IF race.step = 0 THEN [NoRace EXCEPT !.n = race.n] ELSE race
    /\ UNCHANGED <<state_, initialized_, provisioning_active_, current_ssid_,
                   current_password_, connection_callback_, nvs, wifi_config,
                   radio, down_owed, down_cause, netif_ip, prov_mgr, end_owed,
                   session_cred, fresh_persist, events, saved_pairs, diverged>>

RaceInit ==
    /\ state_ = DISCONNECTED
    /\ initialized_ = TRUE
    /\ provisioning_active_ = FALSE
    /\ current_ssid_ = EmptyStr
    /\ current_password_ = EmptyStr
    /\ connection_callback_ = TRUE
    /\ nvs \in {EmptyNvs} \cup {StoreOf(c) : c \in ProvCredentials}
    /\ wifi_config = NoConfig
    /\ radio = "idle"
    /\ down_owed = FALSE
    /\ down_cause = ""
    /\ netif_ip = NoIp
    /\ prov_mgr = "deinit"
    /\ end_owed = FALSE
    /\ session_cred = NoConfig
    /\ fresh_persist = FALSE
    /\ events = <<>>
    /\ saved_pairs = {}
    /\ diverged = FALSE
    /\ race = NoRace
    /\ op = NoOp
    /\ effects = <<>>

RaceNext ==
    \/ RaceBegin
    \/ RaceAdvance
    \/ RaceDeliver
    \/ RaceReturns
    \/ RadioLinkUp
    \/ RadioLinkLost
    \/ RadioPostDisconnected
    \/ ProvCredRecv
    \/ ProvEnd
    \/ ProvPostStopped

RaceSpec == RaceInit /\ [][RaceNext]_vars

\* ------------------------------------------------------------- properties
\* the states handed to the observer by the last call, in order
Notified == [i \in 1..Len(SelectSeq(effects, LAMBDA e : e.e = "notify")) |->
                SelectSeq(effects, LAMBDA e : e.e = "notify")[i].arg]

\* how often the last call did e
Times(e) == Len(SelectSeq(effects, LAMBDA x : x.e = e))

\* the last call did e with argument arg
DidEffect(e, arg) == \E i \in 1..Len(effects) : effects[i] = Eff(e, arg)

Delivered(kind) == op.name \in {"eventHandler", "provisioningEventHandler"}
                   /\ op.ev.kind = kind

\* C1: while an observer is registered, the states a call hands to the
\* observer are exactly its changes of state_: each one differs from the
\* value before it (none is handed for a state that is set again), and the
\* last one is the value getState() has when the call returns; with none
\* handed, the state is the one the call started in.
C1_ObserverOncePerChange ==
    (op # NoOp /\ connection_callback_) =>
        LET chain == <<op.from>> \o Notified
        IN  /\ \A i \in 1..Len(Notified) : chain[i] # chain[i + 1]
            /\ chain[Len(chain)] = state_

\* connect(ssid, password, save) called while Connecting: the implicit
\* disconnect and the new attempt are two changes, two notifications
C1_Witness ==
    /\ op.name = "connect(ssid,password,save)"
    /\ op.from = CONNECTING
    /\ connection_callback_
    /\ Notified = <<DISCONNECTED, CONNECTING>>
    /\ state_ = CONNECTING

\* C2: disconnect() accepted while Connecting leaves the state Disconnected,
\* and an IP-acquired event of a superseded attempt that is delivered while
\* the state is Disconnected leaves it Disconnected without a notification.
C2_StaleConnectSuccessIgnored ==
    /\ (op.name = "disconnect" /\ op.from = CONNECTING /\ op.ret)
          => state_ = DISCONNECTED
    /\ (Delivered("IP_EVENT_STA_GOT_IP") /\ op.ev.stale /\ op.from = DISCONNECTED)
          => (state_ = DISCONNECTED /\ Notified = <<>>)

\* C3: connect() called in Disconnected finding no complete pair in the store
\* leaves the state Provisioning, with a session started and no radio-connect
\* issued before that.
C3_ConnectWithoutCredentialsProvisions ==
    (op.name = "connect()" /\ op.from = DISCONNECTED
        /\ DidEffect("loadCredentials", "failed")) =>
        /\ state_ = PROVISIONING
        /\ Times("wifi_prov_mgr_start_provisioning") = 1
        /\ Times("esp_wifi_connect") = 0

\* C4: a link-down delivered while Connected issues one radio-connect and
\* leaves the state Connecting; a registered observer is told once,
\* Connecting.
C4_LinkDownWhileConnectedRetries ==
    (Delivered("WIFI_EVENT_STA_DISCONNECTED") /\ op.from = CONNECTED) =>
        /\ state_ = CONNECTING
        /\ Times("esp_wifi_connect") = 1
        /\ connection_callback_ => Notified = <<CONNECTING>>

C4_Witness ==
    /\ Delivered("WIFI_EVENT_STA_DISCONNECTED")
    /\ op.from = CONNECTED
    /\ connection_callback_
    /\ state_ = CONNECTING
    /\ radio = "connecting"

\* the step is the provisioning handler taking WIFI_PROV_END while the
\* session it belongs to is in progress
SessionEnds ==
    /\ op = NoOp
    /\ provisioning_active_
    /\ op'.name = "provisioningEventHandler"
    /\ op'.ev.kind = "WIFI_PROV_END"

\* C5: when the session in progress ends and no CredentialsReceived was
\* delivered to it, the state becomes Error, no radio-connect is issued and
\* no session is started.
C5_EndWithoutCredentialsIsError ==
    [][(SessionEnds /\ session_cred = NoConfig) =>
          /\ state_' = ERROR
          /\ Times("esp_wifi_connect")' = 0
          /\ Times("wifi_prov_mgr_start_provisioning")' = 0]_vars

C7_ProvisioningWithStoredCredentialsConnects ==
    [][(op = NoOp /\ op'.name = "startProvisioning" /\ initialized_'
          /\ NvsLoad(nvs).ok /\ ~provisioning_active_) =>
          /\ Times("wifi_prov_mgr_start_provisioning")' = 0
          /\ state_' # PROVISIONING
          /\ Times("esp_wifi_connect")' = 1
          /\ wifi_config' = Cred(nvs.wifi_ssid, nvs.wifi_pass)
          /\ nvs' = nvs]_vars

\* C8: the IP-acquired event of the attempt that connect(id, secret, true)
\* started, handled next, leaves the state Connected, getSSID() = id,
\* getIPAddress() = the address acquired, and (id, secret) in the store.
C8_PersistedConnectReachesConnected ==
    [][(op = NoOp /\ fresh_persist /\ op'.name = "eventHandler"
          /\ op'.ev.kind = "IP_EVENT_STA_GOT_IP" /\ ~op'.ev.stale) =>
          /\ state_' = CONNECTED
          /\ GetSSID(Machine)' = current_ssid_
          /\ GetIPAddress(Machine)' = op'.ev.ip
          /\ NvsLoad(nvs') = [ok |-> TRUE, ssid |-> current_ssid_,
                              password |-> current_password_]]_vars

\* what loadCredentials returns for a pair that is in the store
Loaded(ssid, password) == [ok |-> TRUE, ssid |-> ssid, password |-> password]

\* C9: with no storage step failing, loadCredentials after
\* saveCredentials(id, secret) returns exactly (id, secret); after
\* clearStoredCredentials it reports not-found and hasStoredCredentials() is
\* false; and a saveCredentials that follows a clearStoredCredentials
\* succeeds and is what loadCredentials returns next.
C9_StoreRoundTrip ==
    [][/\ (op'.name = "saveCredentials" /\ op'.fail = "none") =>
             /\ op'.ret
             /\ NvsLoad(nvs') = Loaded(op'.ev.ssid, op'.ev.password)
       /\ (op'.name = "clearStoredCredentials" /\ op'.fail = "none") =>
             /\ op'.ret
             /\ ~NvsLoad(nvs').ok
             /\ ~HasStoredCredentials(Machine)'
       /\ (/\ op.name = "clearStoredCredentials" /\ op.fail = "none"
           /\ op'.name = "saveCredentials" /\ op'.fail = "none") =>
             /\ ~NvsLoad(nvs).ok
             /\ op'.ret
             /\ NvsLoad(nvs') = Loaded(op'.ev.ssid, op'.ev.password)]_vars

\* a save of the 32-byte identifier has succeeded and the store returns it
C9_Witness ==
    /\ op.name = "saveCredentials"
    /\ op.fail = "none"
    /\ op.ret
    /\ op.ev.ssid.len = SsidFieldSize
    /\ HasStoredCredentials(Machine)
    /\ LoadCredentials(Machine) = Loaded(op.ev.ssid, op.ev.password)

\* C10: whatever storage steps failed in the saves and clears so far, when
\* loadCredentials succeeds both keys are present and the pair it returns was
\* passed to one saveCredentials call.
C10_StoredPairIsAtomic ==
    NvsLoad(nvs).ok =>
        /\ nvs.wifi_ssid # NotFound
        /\ nvs.wifi_pass # NotFound
        /\ Cred(NvsLoad(nvs).ssid, NvsLoad(nvs).password) \in saved_pairs

\* among the calls made by the last operation, every e2 comes after an e1
Precedes(e1, e2) ==
    \A j \in 1..Len(effects) :
        effects[j].e = e2 => \E i \in 1..(j - 1) : effects[i].e = e1

\* C11: connect(id, secret, persist) called in Connecting or Connected issues
\* a radio-disconnect before its radio-connect and exactly one radio-connect,
\* and the link-down event that answers that radio-disconnect, delivered
\* later, issues no further radio-connect.
C11_ConnectWhileConnectingIsSingleAttempt ==
    [][/\ (/\ op = NoOp
           /\ initialized_
           /\ state_ \in {CONNECTING, CONNECTED}
           /\ op'.name = "connect(ssid,password,save)") =>
             /\ Times("esp_wifi_disconnect")' = 1
             /\ Times("esp_wifi_connect")' = 1
             /\ Precedes("esp_wifi_disconnect", "esp_wifi_connect")'
       /\ (/\ op = NoOp
           /\ op'.name = "eventHandler"
           /\ op'.ev.kind = "WIFI_EVENT_STA_DISCONNECTED"
           /\ op'.ev.cause = "connect") =>
             Times("esp_wifi_connect")' = 0]_vars

\* the names under which the application retries
RetryCalls == {"connect()", "connect(ssid,password,save)", "startProvisioning"}

\* the names under which the event loop runs a handler
Handlers == {"eventHandler", "provisioningEventHandler"}

\* C12: once the state is Error it changes only in a connect or
\* startProvisioning call, and an event delivered in Error neither changes
\* the state nor notifies the observer.
C12_ErrorIsTerminalUntilRetry ==
    [][(op = NoOp /\ state_ = ERROR) =>
          /\ (state_' # ERROR => op'.name \in RetryCalls)
          /\ (op'.name \in Handlers =>
                 state_' = ERROR /\ Times("notify")' = 0)]_vars

\* C13: outside Connected getSSID() and getIPAddress() return the empty
\* string; in Connected getSSID() is not empty and is the identifier the
\* radio was last asked to connect to.
C13_GettersFollowState ==
    /\ state_ # CONNECTED =>
          /\ GetSSID(Machine) = EmptyStr
          /\ GetIPAddress(Machine) = ""
    /\ state_ = CONNECTED =>
          /\ GetSSID(Machine) # EmptyStr
          /\ GetSSID(Machine) = wifi_config.ssid

\* the facade operations that write the store
StoreWriters == {"connect(ssid,password,save)", "startProvisioning",
                 "clearStoredCredentials"}

\* C14: a facade operation in which a step of the store fails returns false
\* and leaves the state, the active-session flag and the current identity as
\* they were; it issues no radio-connect.
C14_StorageFailureLeavesStateUnchanged ==
    [][(op = NoOp /\ op'.name \in StoreWriters /\ op'.fail # "none") =>
          /\ ~op'.ret
          /\ state_' = state_
          /\ provisioning_active_' = provisioning_active_
          /\ current_ssid_' = current_ssid_
          /\ current_password_' = current_password_
          /\ Times("esp_wifi_connect")' = 0]_vars

\* C15: disconnect() before init, or rejected by the radio, returns false,
\* leaves the state as it was and notifies nobody; accepted by the radio it
\* returns true and the state is Disconnected.
C15_DisconnectResult ==
    op.name = "disconnect" =>
        IF ~initialized_ \/ DidEffect("esp_wifi_disconnect", "rejected")
        THEN /\ ~op.ret
             /\ state_ = op.from
             /\ Times("notify") = 0
        ELSE /\ op.ret
             /\ DidEffect("esp_wifi_disconnect", "ok")
             /\ state_ = DISCONNECTED

\* the radio has rejected a disconnect() called in Connected, with an
\* observer registered
C15_Witness ==
    /\ op.name = "disconnect"
    /\ op.from = CONNECTED
    /\ connection_callback_
    /\ DidEffect("esp_wifi_disconnect", "rejected")
    /\ ~op.ret
    /\ state_ = CONNECTED

\* C16: while a session started by startProvisioning is active and has
\* received no credentials, hasStoredCredentials() is false.
C16_NoStoredCredentialsDuringSession ==
    (provisioning_active_ /\ session_cred = NoConfig) =>
        ~HasStoredCredentials(Machine)

\* C18: once init() has succeeded, a later init() returns true, does
\* nothing and changes nothing, and the observer is not notified.
C18_InitIsIdempotent ==
    [][(op = NoOp /\ initialized_ /\ op'.name = "init") =>
          /\ op'.ret
          /\ effects' = <<>>
          /\ UNCHANGED <<state_, initialized_, provisioning_active_,
                         current_ssid_, current_password_,
                         connection_callback_, nvs, wifi_config, radio,
                         down_owed, netif_ip, prov_mgr, end_owed, events>>]_vars

\* init() has been called again in Connected, with an observer registered
C18_Witness ==
    /\ op.name = "init"
    /\ op.from = CONNECTED
    /\ op.ret
    /\ initialized_
    /\ connection_callback_
    /\ state_ = CONNECTED
    /\ HasStoredCredentials(Machine)

\* the step is the handler taking an event of the given kind
Delivers(kind) ==
    /\ op = NoOp
    /\ op'.name \in Handlers
    /\ op'.ev.kind = kind

\* C19: the state becomes Connected only when an IP-acquired event is
\* delivered in Connecting; delivered in Disconnected, Provisioning or Error
\* the event leaves the state as it was.
C19_ConnectedOnlyFromConnecting ==
    [][/\ (state_ # CONNECTED /\ state_' = CONNECTED) =>
             (Delivers("IP_EVENT_STA_GOT_IP") /\ state_ = CONNECTING)
       /\ (Delivers("IP_EVENT_STA_GOT_IP")
             /\ state_ \in {DISCONNECTED, PROVISIONING, ERROR}) =>
             state_' = state_]_vars

\* C20: the fail bit is raised only by a link-down delivered in Disconnected,
\* which leaves the state Disconnected and issues no radio-connect; a
\* link-down delivered in Connecting or Connected issues one radio-connect
\* and does not raise the bit; delivered in Provisioning or Error it neither
\* raises the bit nor changes the state.
C20_FailBitOnlyWhenDisconnected ==
    [][/\ DidEffect("xEventGroupSetBits", WIFI_FAIL_BIT)' =>
             /\ Delivers("WIFI_EVENT_STA_DISCONNECTED")
             /\ state_ = DISCONNECTED
             /\ state_' = DISCONNECTED
             /\ Times("esp_wifi_connect")' = 0
       /\ (Delivers("WIFI_EVENT_STA_DISCONNECTED")
             /\ state_ \in {CONNECTING, CONNECTED}) =>
             /\ Times("esp_wifi_connect")' = 1
             /\ ~DidEffect("xEventGroupSetBits", WIFI_FAIL_BIT)'
       /\ (Delivers("WIFI_EVENT_STA_DISCONNECTED")
             /\ state_ \in {PROVISIONING, ERROR}) =>
             /\ ~DidEffect("xEventGroupSetBits", WIFI_FAIL_BIT)'
             /\ state_' = state_]_vars

\* the call that ran step by step has just returned
RaceOver == race.call # "" /\ race.step = 0

\* C17: a facade call interleaved with one event handler ends with the state,
\* the current identity and the active-session flag of the call followed by
\* the handler or of the handler followed by the call; and an IP-acquired
\* event handled between connect's radio-connect request and its state
\* update does not leave the state Connecting while the link is up.
C17_InterleavingsAreSerializable ==
    /\ (RaceOver /\ Len(race.evs) = 1) =>
          LET ev == race.evs[1].ev
          IN  Shared(Machine) \in
                 {Shared(Handle(RaceCallAtomic(race.start, race), ev)),
                  Shared(RaceCallAtomic(Handle(race.start, ev), race))}
    /\ (/\ RaceOver
        /\ race.call = "connect"
        /\ Len(race.evs) = 1
        /\ race.evs[1].ev.kind = "IP_EVENT_STA_GOT_IP"
        /\ race.evs[1].at = 3) =>
          ~(state_ = CONNECTING /\ radio = "up")

\* C21: the handler of WIFI_PROV_END deinitializes the manager and drops the
\* active-session flag before it loads the credentials, and loads them
\* before any radio-connect and any notification of the observer; the flag
\* is false from then on, so a startProvisioning made from the observer gets
\* past the already-active check.
C21_TeardownBeforeActing ==
    Delivered("WIFI_PROV_END") =>
        /\ Times("wifi_prov_mgr_deinit") = 1
        /\ Times("provisioning_active_") = 1
        /\ Times("loadCredentials") = 1
        /\ Precedes("wifi_prov_mgr_deinit", "loadCredentials")
        /\ Precedes("provisioning_active_", "loadCredentials")
        /\ Precedes("loadCredentials", "esp_wifi_connect")
        /\ Precedes("loadCredentials", "notify")
        /\ ~provisioning_active_
        /\ StartProvisioning(Machine, "ok", TRUE, "none", "none").effects # <<>>

\* the session in progress has ended with a pair in the store: the observer
\* was told Connecting after the teardown
C21_Witness ==
    /\ Delivered("WIFI_PROV_END")
    /\ op.from = PROVISIONING
    /\ connection_callback_
    /\ Notified = <<CONNECTING>>
    /\ Times("esp_wifi_connect") = 1
    /\ prov_mgr = "deinit"
    /\ ~provisioning_active_

\* C22: stopProvisioning() with a session active stops and deinitializes the
\* manager, drops the flag, sets Disconnected and returns true; with no
\* session active it returns true and leaves the state and the store alone;
\* and an Ended or CredentialsReceived event of the stopped session,
\* delivered later, does not change the state.
C22_StopProvisioningCancels ==
    [][/\ (op = NoOp /\ provisioning_active_ /\ op'.name = "stopProvisioning") =>
             /\ op'.ret
             /\ Times("wifi_prov_mgr_stop_provisioning")' = 1
             /\ Times("wifi_prov_mgr_deinit")' = 1
             /\ ~provisioning_active_'
             /\ state_' = DISCONNECTED
       /\ (op = NoOp /\ ~provisioning_active_ /\ op'.name = "stopProvisioning") =>
             /\ op'.ret
             /\ state_' = state_
             /\ nvs' = nvs
       /\ (/\ op = NoOp
           /\ op'.name = "provisioningEventHandler"
           /\ op'.ev.cause = "stopProvisioning") =>
             state_' = state_]_vars

\* C23: between operations the state is Provisioning exactly when the
\* active-session flag is set.
C23_ProvisioningIffSessionActive ==
    (state_ = PROVISIONING) <=> provisioning_active_

\* C24: every connect() and every startProvisioning returns, after at most
\* one radio-connect or one session start; the calls between the two do not
\* nest without end.
C24_ConnectAndProvisioningReturn ==
    /\ ~diverged
    /\ op.name \in {"connect()", "startProvisioning"} =>
          Times("esp_wifi_connect")
             + Times("wifi_prov_mgr_start_provisioning") <= 1

====
